---- MODULE Spec2Model ----
(***************************************************************************)
(* Cache-or-generate orchestration of the travel backend: the two Flask    *)
(* handlers of app.py (search_places, get_place_details_route) running     *)
(* concurrently over the two SQLAlchemy tables of database.py (Cache,      *)
(* Place), the generative backend and the Wikipedia image lookup.          *)
(*                                                                         *)
(* Python values are tagged records ([t |-> "None"], [t |-> "str", ...]),  *)
(* a Python string is a sequence of one-character strings, and the text of *)
(* a search response of the backend is a sequence of chunks.               *)
(***************************************************************************)
EXTENDS Integers, Sequences, FiniteSets, TLC

(***************************************************************************)
(* Python values and truthiness                                            *)
(***************************************************************************)
PyNone == [t |-> "None"]
PyStr(s) == [t |-> "str", s |-> s]
PyInt(n) == [t |-> "int", n |-> n]
PyBool(b) == [t |-> "bool", b |-> b]
PyList(items) == [t |-> "list", items |-> items]
PyDict(f) == [t |-> "dict", f |-> f]

\* Variant: the test "is not None" in the place of the truth test.
IsNotNone(v) == v.t # "None"

\* bool(v): what the tests  if v:  and  if not v:  look at.
Truthy(v) ==
    CASE v.t = "None" -> FALSE
      [] v.t = "bool" -> v.b
      [] v.t = "int"  -> v.n # 0
      [] v.t = "str"  -> v.s # <<>>
      [] v.t = "list" -> v.items # <<>>
      [] v.t = "dict" -> DOMAIN v.f # {}
      [] OTHER        -> TRUE

(***************************************************************************)
(* JSON: json.loads, jsonify and the db.JSON column                        *)
(***************************************************************************)
JNull == [t |-> "null"]

RECURSIVE ToJson(_)
\* json.dumps, as jsonify and the JSON column type apply it.
ToJson(v) ==
    CASE v.t = "None" -> JNull
      [] v.t = "bool" -> [t |-> IF v.b THEN "true" ELSE "false"]
      [] v.t = "int"  -> [t |-> "number", n |-> v.n]
      [] v.t = "str"  -> [t |-> "string", s |-> v.s]
      [] v.t = "list" -> [t |-> "array",
                          items |-> [i \in DOMAIN v.items |-> ToJson(v.items[i])]]
      [] v.t = "dict" -> [t |-> "object",
                          f |-> [k \in DOMAIN v.f |-> ToJson(v.f[k])]]

RECURSIVE FromJson(_)
\* json.loads on a well-formed JSON value.
FromJson(j) ==
    CASE j.t = "null"   -> PyNone
      [] j.t = "true"   -> PyBool(TRUE)
      [] j.t = "false"  -> PyBool(FALSE)
      [] j.t = "number" -> PyInt(j.n)
      [] j.t = "string" -> PyStr(j.s)
      [] j.t = "array"  -> PyList([i \in DOMAIN j.items |-> FromJson(j.items[i])])
      [] j.t = "object" -> PyDict([k \in DOMAIN j.f |-> FromJson(j.f[k])])

(***************************************************************************)
(* Text of a request parameter: str.strip() and str.lower()                *)
(***************************************************************************)
Whitespace == {" ", "\t", "\n"}

UpperCase == <<"A", "B", "C", "D", "E", "F", "G", "H", "I", "J", "K", "L", "M",
               "N", "O", "P", "Q", "R", "S", "T", "U", "V", "W", "X", "Y", "Z">>
LowerCase == <<"a", "b", "c", "d", "e", "f", "g", "h", "i", "j", "k", "l", "m",
               "n", "o", "p", "q", "r", "s", "t", "u", "v", "w", "x", "y", "z">>

LowerChar(c) ==
    IF \E i \in DOMAIN UpperCase : UpperCase[i] = c
    THEN LowerCase[CHOOSE i \in DOMAIN UpperCase : UpperCase[i] = c]
    ELSE c

RECURSIVE LStrip(_)
LStrip(s) == IF s # <<>> /\ Head(s) \in Whitespace THEN LStrip(Tail(s)) ELSE s

RECURSIVE RStrip(_)
RStrip(s) ==
    IF s # <<>> /\ s[Len(s)] \in Whitespace
    THEN RStrip(SubSeq(s, 1, Len(s) - 1))
    ELSE s

\* str.strip()
Strip(s) == RStrip(LStrip(s))

\* str.lower()
Lower(s) == [i \in DOMAIN s |-> LowerChar(s[i])]

\* Variant: the key is trimmed but its case is kept.
NormalizeLocationKeepingCase(s) == Strip(s)

\* data['location'].strip().lower()
NormalizeLocation(s) == Lower(Strip(s))

(***************************************************************************)
(* Exceptions: a computation inside a try block yields Ok(v) or Raise(e)   *)
(***************************************************************************)
Ok(v) == [ok |-> TRUE, v |-> v]
Raise(e) == [ok |-> FALSE, exc |-> e]

(***************************************************************************)
(* The generative backend: model.generate_content(prompt)                  *)
(***************************************************************************)
\* Three backquotes, the code fence of Markdown.
Fence == [c |-> "fence"]
WordJson == [c |-> "json"]
Space == [c |-> "ws"]
Prose == [c |-> "prose"]
Payload(j) == [c |-> "value", v |-> j]

JStr(s) == [t |-> "string", s |-> s]
JArray(items) == [t |-> "array", items |-> items]
JObject(f) == [t |-> "object", f |-> f]

EiffelTower == <<"E", "i", "f", "f", "e", "l", " ", "T", "o", "w", "e", "r">>
Louvre == <<"L", "o", "u", "v", "r", "e">>

\* The places a well-behaved backend returns for a location.
TwoPlaces == JArray(<<JObject([name |-> JStr(EiffelTower)]),
                      JObject([name |-> JStr(Louvre)])>>)
\* A valid JSON list with no places.
NoPlaces == JArray(<<>>)
\* A JSON list whose second item has no "name".
NamelessPlace == JArray(<<JObject([name |-> JStr(EiffelTower)]),
                          JObject([title |-> JStr(Louvre)])>>)
\* A JSON object where a list was asked for.
NotAList == JObject([places |-> TwoPlaces])

Usage(n) == [total_token_count |-> PyInt(n)]

\* What generate_content can do on a search prompt: raise, or return a
\* response with a text and, possibly, usage metadata.
SearchResponses ==
    { [raised |-> TRUE],
      [raised |-> FALSE, usage_metadata |-> Usage(7),
       text |-> <<Fence, WordJson, Space, Payload(TwoPlaces), Space, Fence, Space>>],
      [raised |-> FALSE, usage_metadata |-> PyNone,
       text |-> <<Payload(TwoPlaces)>>],
      [raised |-> FALSE, usage_metadata |-> Usage(7),
       text |-> <<Payload(NoPlaces)>>],
      [raised |-> FALSE, usage_metadata |-> Usage(7),
       text |-> <<Prose, Space, Payload(TwoPlaces)>>],
      [raised |-> FALSE, usage_metadata |-> Usage(7),
       text |-> <<Payload(NamelessPlace)>>],
      [raised |-> FALSE, usage_metadata |-> Usage(7),
       text |-> <<Payload(NotAList)>>] }

Description1 == <<"d", "1">>
Description2 == <<"d", "2">>

\* What generate_content can do on a detail prompt. A response without usage
\* metadata has usage_metadata None or, where the client library builds the
\* object all the same, a count of 0.
DetailResponses ==
    { [raised |-> TRUE],
      [raised |-> FALSE, usage_metadata |-> Usage(9), text |-> Description1],
      [raised |-> FALSE, usage_metadata |-> Usage(0), text |-> Description1],
      [raised |-> FALSE, usage_metadata |-> Usage(9), text |-> Description2],
      [raised |-> FALSE, usage_metadata |-> Usage(9), text |-> <<>>],
      [raised |-> FALSE, usage_metadata |-> PyNone, text |-> Description1] }

\* response.usage_metadata.total_token_count
total_token_count(response) ==
    IF response.usage_metadata = PyNone
    THEN Raise("AttributeError")
    ELSE Ok(response.usage_metadata.total_token_count)

RECURSIVE StripLeft(_)
StripLeft(text) ==
    IF text # <<>> /\ Head(text) = Space THEN StripLeft(Tail(text)) ELSE text

RECURSIVE StripRight(_)
StripRight(text) ==
    IF text # <<>> /\ text[Len(text)] = Space
    THEN StripRight(SubSeq(text, 1, Len(text) - 1))
    ELSE text

RECURSIVE ReplaceFenceJson(_)
\* .replace(fence + "json", "")
ReplaceFenceJson(text) ==
    IF text = <<>> THEN <<>>
    ELSE IF Len(text) >= 2 /\ text[1] = Fence /\ text[2] = WordJson
         THEN ReplaceFenceJson(SubSeq(text, 3, Len(text)))
         ELSE <<Head(text)>> \o ReplaceFenceJson(Tail(text))

\* .replace(fence, "")
ReplaceFence(text) == SelectSeq(text, LAMBDA c : c # Fence)

\* response.text.strip().replace(fence + "json", "").replace(fence, "")
clean_response(text) == ReplaceFence(ReplaceFenceJson(StripRight(StripLeft(text))))

\* Variant: a text that does not parse yields an empty list instead of raising.
json_loads_lenient(text) ==
    LET body == StripRight(StripLeft(text))
    IN  IF Len(body) = 1 /\ body[1].c = "value"
        THEN Ok(FromJson(body[1].v))
        ELSE Ok(PyList(<<>>))

\* json.loads(clean_response): one JSON value, white space around it allowed.
json_loads(text) ==
    LET body == StripRight(StripLeft(text))
    IN  IF Len(body) = 1 /\ body[1].c = "value"
        THEN Ok(FromJson(body[1].v))
        ELSE Raise("JSONDecodeError")

(***************************************************************************)
(* The Wikipedia image lookup                                              *)
(***************************************************************************)
ThumbnailOf(place_name) == <<"w", ":">> \o place_name

\* What the HTTP call of get_wikipedia_image_url comes back with here: a page
\* with a thumbnail, or a status that raise_for_status() turns into an exception.
WikiReplies == {"thumbnail", "http_error"}

\* Variant: without the try block, the exception of a failed lookup escapes.
get_wikipedia_image_url_raising(place_name, reply) ==
    IF reply = "thumbnail" THEN Ok(PyStr(ThumbnailOf(place_name.s)))
    ELSE IF reply = "http_error" THEN Raise("HTTPError")
    ELSE Ok(PyNone)

\* get_wikipedia_image_url: the thumbnail's URL, None when the page has no
\* thumbnail and None when anything raised.
get_wikipedia_image_url(place_name, reply) ==
    IF reply = "thumbnail" THEN Ok(PyStr(ThumbnailOf(place_name.s))) ELSE Ok(PyNone)

\* d[k] = v on a dict
SetItem(d, k, v) ==
    PyDict([x \in DOMAIN d.f \cup {k} |-> IF x = k THEN v ELSE d.f[x]])

RECURSIVE KeysOf(_)
KeysOf(S) ==
    IF S = {} THEN <<>>
    ELSE LET k == CHOOSE x \in S : TRUE IN <<PyStr(<<k>>)>> \o KeysOf(S \ {k})

\* iter(v): the items a for loop visits, or TypeError.
Iterate(v) ==
    CASE v.t = "list" -> Ok(v.items)
      [] v.t = "dict" -> Ok(KeysOf(DOMAIN v.f))
      [] v.t = "str"  -> Ok([i \in DOMAIN v.s |-> PyStr(<<v.s[i]>>)])
      [] OTHER        -> Raise("TypeError")

\* One turn of the loop of search_places:
\*   place['image_url'] = get_wikipedia_image_url(place['name'])
\*   place['has_details'] = False
enrich_place(place, reply) ==
    IF place.t # "dict" THEN Raise("TypeError")
    ELSE IF "name" \notin DOMAIN place.f THEN Raise("KeyError")
    ELSE LET image == get_wikipedia_image_url(place.f["name"], reply)
         IN  IF ~image.ok THEN image
             ELSE Ok(SetItem(SetItem(place, "image_url", image.v),
                             "has_details", PyBool(FALSE)))

RECURSIVE enrich_from(_, _, _)
\* The loop from item i on; items before i are already enriched in place.
enrich_from(items, replies, i) ==
    IF i > Len(items) THEN Ok(items)
    ELSE LET place == enrich_place(items[i], replies[i])
         IN  IF ~place.ok THEN place
             ELSE enrich_from([items EXCEPT ![i] = place.v], replies, i + 1)

\* Variant: an exception in the loop is swallowed and the places are kept as
\* far as the loop got.
enrich_places_keeping_partial(places_from_llm, replies) ==
    LET it == Iterate(places_from_llm)
    IN  IF ~it.ok THEN Ok(places_from_llm)
        ELSE LET done == enrich_from(it.v, replies, 1)
             IN  IF ~done.ok THEN Ok(places_from_llm)
                 ELSE IF places_from_llm.t = "list" THEN Ok(PyList(done.v))
                 ELSE Ok(places_from_llm)

\* for place in places_from_llm: ...   (the list is changed in place)
enrich_places(places_from_llm, replies) ==
    LET it == Iterate(places_from_llm)
    IN  IF ~it.ok THEN it
        ELSE LET done == enrich_from(it.v, replies, 1)
             IN  IF ~done.ok THEN done
                 ELSE IF places_from_llm.t = "list" THEN Ok(PyList(done.v))
                 ELSE Ok(places_from_llm)

\* How many image lookups the loop can make at most.
LoopLength(places_from_llm) ==
    LET it == Iterate(places_from_llm) IN IF it.ok THEN Len(it.v) ELSE 0

(***************************************************************************)
(* database.py: the tables Cache and Place, rows in insertion order        *)
(***************************************************************************)
\* query.filter_by(...).first() gives the first matching row; here its index,
\* 0 for None.
\* Cache.query.filter_by(search_term=location).first()
SelectCache(table, location) ==
    LET found == {i \in DOMAIN table : table[i].search_term = location}
    IN  IF found = {} THEN 0 ELSE CHOOSE i \in found : \A j \in found : i <= j

\* Place.query.filter_by(name=place_name).first()
SelectPlace(table, place_name) ==
    LET found == {i \in DOMAIN table : table[i].name = place_name}
    IN  IF found = {} THEN 0 ELSE CHOOSE i \in found : \A j \in found : i <= j

\* Variant: the cache is not read; every lookup comes back with None.
get_cached_search_disabled(table, location) == PyNone

get_cached_search(table, location) ==
    LET cache_entry == SelectCache(table, location)
    IN  IF cache_entry # 0 THEN FromJson(table[cache_entry].results) ELSE PyNone

\* Variant: the new entry is built but never added to the session.
save_search_result_without_add(table, existing_cache, location, places) ==
    IF existing_cache # 0
    THEN Ok([table EXCEPT ![existing_cache].results = ToJson(places)])
    ELSE Ok(table)

\* Variant: an existing entry is extended with the new places, not replaced.
save_search_result_merging(table, existing_cache, location, places) ==
    IF existing_cache # 0
    THEN Ok([table EXCEPT ![existing_cache].results =
                JArray(@.items \o ToJson(places).items)])
    ELSE IF SelectCache(table, location) # 0
         THEN Raise("IntegrityError")
         ELSE Ok(Append(table, [search_term |-> location, results |-> ToJson(places)]))

\* Variant: search_term is not declared unique.
save_search_result_without_unique(table, existing_cache, location, places) ==
    IF existing_cache # 0
    THEN Ok([table EXCEPT ![existing_cache].results = ToJson(places)])
    ELSE Ok(Append(table, [search_term |-> location, results |-> ToJson(places)]))

\* save_search_result after its query found existing_cache (0 for None):
\* the new table, or the IntegrityError of the unique search_term.
save_search_result(table, existing_cache, location, places) ==
    IF existing_cache # 0
    THEN Ok([table EXCEPT ![existing_cache].results = ToJson(places)])
    ELSE IF SelectCache(table, location) # 0
         THEN Raise("IntegrityError")
         ELSE Ok(Append(table, [search_term |-> location, results |-> ToJson(places)]))

\* Variant: the description of the row is returned whatever it holds.
get_place_details_unchecked(table, place_name) ==
    LET place == SelectPlace(table, place_name)
    IN  IF place # 0 THEN table[place].description ELSE PyNone

get_place_details(table, place_name) ==
    LET place == SelectPlace(table, place_name)
    IN  IF place # 0 /\ Truthy(table[place].description)
        THEN table[place].description
        ELSE PyNone

\* Variant: the new row is built but never added to the session.
save_place_details_without_add(table, place, place_name, description, image_url) ==
    IF place # 0
    THEN Ok([table EXCEPT ![place] =
                [@ EXCEPT !.description = description,
                          !.image_url = IF Truthy(image_url) THEN image_url ELSE @]])
    ELSE Ok(table)

\* Variant: image_url is assigned whatever it is.
save_place_details_overwriting_image(table, place, place_name, description, image_url) ==
    IF place # 0
    THEN Ok([table EXCEPT ![place] =
                [@ EXCEPT !.description = description, !.image_url = image_url]])
    ELSE IF SelectPlace(table, place_name) # 0
         THEN Raise("IntegrityError")
         ELSE Ok(Append(table, [name |-> place_name, description |-> description,
                                image_url |-> image_url]))

\* save_place_details after its query found place (0 for None).
save_place_details(table, place, place_name, description, image_url) ==
    IF place # 0
    THEN Ok([table EXCEPT ![place] =
                [@ EXCEPT !.description = description,
                          !.image_url = IF Truthy(image_url) THEN image_url ELSE @]])
    ELSE IF SelectPlace(table, place_name) # 0
         THEN Raise("IntegrityError")
         ELSE Ok(Append(table, [name |-> place_name, description |-> description,
                                image_url |-> image_url]))

(***************************************************************************)
(* The requests                                                            *)
(***************************************************************************)
Paris == <<"P", "a", "r", "i", "s">>
ParisPadded == <<" ", "p", "a", "r", "i", "s", " ">>
ParisUpper == <<"P", "A", "R", "I", "S">>
Rome == <<"R", "o", "m", "e">>
EiffelTowerLower == Lower(EiffelTower)
EiffelTowerPadded == <<" ">> \o EiffelTower \o <<" ">>

\* request.get_json() of a POST to /search-places
SearchBodies ==
    { PyNone,
      PyDict([location |-> PyInt(75)]),
      PyDict([location |-> PyStr(Paris)]),
      PyDict([location |-> PyStr(ParisPadded)]),
      PyDict([location |-> PyStr(ParisUpper)]),
      PyDict([location |-> PyStr(Rome)]) }

\* request.get_json() of a POST to /place-details
DetailBodies ==
    { PyDict(<<>>),
      PyDict([place_name |-> PyStr(EiffelTower)]),
      PyDict([place_name |-> PyStr(EiffelTowerLower)]),
      PyDict([place_name |-> PyStr(EiffelTowerPadded)]) }

\* Whether the database answers a statement or the connection is lost.
Storage == {"up", "down"}

\* The workers that handle requests at the same time.
Workers == {"w1", "w2"}

\* How many requests are handled in all.
MaxRequests == 2

VARIABLES
    model,        \* the module-level backend handle of app.py, None when unconfigured
    cacheTable,   \* the rows of Cache
    placeTable,   \* the rows of Place
    req,          \* per worker: the request it handles and where its handler is
    ver,          \* history: how many commits each table has seen
    started       \* history: how many requests have been accepted

vars == <<model, cacheTable, placeTable, req, ver, started>>

GenerativeModel == [t |-> "GenerativeModel"]
NoResponse == [raised |-> FALSE, usage_metadata |-> PyNone, text |-> <<>>]
NoResult == [status |-> 0, json |-> JNull]

\* A worker with no request.
Fresh ==
    [ pc |-> "idle",            \* idle, generate, enrich, save_read, save_commit, done
      kind |-> "none",          \* search, detail
      body |-> PyNone,          \* data
      key |-> <<>>,             \* location, place_name
      response |-> NoResponse,  \* response
      token_count |-> PyNone,
      value |-> PyNone,         \* places_from_llm, detailed_description
      replies |-> <<>>,         \* history: what the image lookups came back with
      existing |-> 0,           \* existing_cache, place
      result |-> NoResult,      \* what the handler returned
      hit |-> FALSE,            \* history: served from the cache
      calls |-> 0,              \* history: calls of model.generate_content
      failed |-> "",            \* history: the step that ended the request
      seen |-> "",              \* history: the row the lookup met
      lookup_ver |-> 0 - 1,     \* history: ver of the table at the lookup
      commit_ver |-> 0 - 1 ]    \* history: ver of the table after the commit

\* return jsonify(payload), status
Jsonify(payload, status) == [status |-> status, json |-> ToJson(PyDict(payload))]

\* An exception no handler catches: the 500 page of Flask.
InternalServerError == [status |-> 500, json |-> JNull]

Finish(r, result, failed) ==
    [r EXCEPT !.pc = "done", !.result = result, !.failed = failed, !.existing = 0]

\* What the row of a key looks like to a lookup.
SeenCache(table, location) ==
    LET i == SelectCache(table, location)
    IN  IF i = 0 THEN "no row"
        ELSE IF table[i].results = JArray(<<>>) THEN "empty" ELSE "filled"

SeenPlace(table, place_name) ==
    LET i == SelectPlace(table, place_name)
    IN  IF i = 0 THEN "no row"
        ELSE IF table[i].description = PyNone THEN "null"
        ELSE IF table[i].description = PyStr(<<>>) THEN "empty" ELSE "filled"

(***************************************************************************)
(* search_places                                                           *)
(***************************************************************************)
SearchFailed(r, failed) ==
    Finish(r, Jsonify([error |-> PyStr(<<"Failed to fetch places from AI model.">>)], 500),
           failed)

\* Variant: the cache is looked up first, the backend handle checked on a miss.
search_places_lookup_cache_first(r, body, storage) ==
    LET r0 == [r EXCEPT !.kind = "search", !.body = body]
    IN  IF ~Truthy(body) \/ "location" \notin DOMAIN body.f
        THEN Finish(r0, Jsonify([error |-> PyStr(<<"Location not provided">>)], 400),
                    "data")
        ELSE IF body.f["location"].t # "str"
        THEN Finish(r0, InternalServerError, "strip")
        ELSE LET location == NormalizeLocation(body.f["location"].s)
                 r1 == [r0 EXCEPT !.key = location, !.lookup_ver = ver.cache,
                                  !.seen = SeenCache(cacheTable, location)]
             IN  IF storage = "down"
                 THEN Finish(r1, InternalServerError, "get_cached_search")
                 ELSE LET cached_places == get_cached_search(cacheTable, location)
                      IN  IF Truthy(cached_places)
                          THEN Finish([r1 EXCEPT !.hit = TRUE],
                                      Jsonify([places |-> cached_places,
                                               token_count |-> PyInt(0)], 200), "")
                          ELSE IF ~Truthy(model)
                          THEN Finish(r1, Jsonify([error |->
                                          PyStr(<<"AI Model not configured">>)], 500),
                                      "model")
                          ELSE [r1 EXCEPT !.pc = "generate"]

\* Variant: a miss on a key another request is generating for is turned away.
search_places_lookup_deduplicating(r, body, storage) ==
    LET r0 == [r EXCEPT !.kind = "search", !.body = body]
    IN  IF ~Truthy(model)
        THEN Finish(r0, Jsonify([error |-> PyStr(<<"AI Model not configured">>)], 500),
                    "model")
        ELSE IF ~Truthy(body) \/ "location" \notin DOMAIN body.f
        THEN Finish(r0, Jsonify([error |-> PyStr(<<"Location not provided">>)], 400),
                    "data")
        ELSE IF body.f["location"].t # "str"
        THEN Finish(r0, InternalServerError, "strip")
        ELSE LET location == NormalizeLocation(body.f["location"].s)
                 r1 == [r0 EXCEPT !.key = location, !.lookup_ver = ver.cache,
                                  !.seen = SeenCache(cacheTable, location)]
             IN  IF storage = "down"
                 THEN Finish(r1, InternalServerError, "get_cached_search")
                 ELSE LET cached_places == get_cached_search(cacheTable, location)
                      IN  IF Truthy(cached_places)
                          THEN Finish([r1 EXCEPT !.hit = TRUE],
                                      Jsonify([places |-> cached_places,
                                               token_count |-> PyInt(0)], 200), "")
                          ELSE IF \E o \in DOMAIN req :
                                     /\ req[o].kind = "search"
                                     /\ req[o].key = location
                                     /\ req[o].pc \notin {"idle", "done"}
                          THEN Finish(r1, Jsonify([error |-> PyStr(<<"In progress">>)],
                                                  503), "")
                          ELSE [r1 EXCEPT !.pc = "generate"]

\* From the top of the handler to the return of the cache hit.
search_places_lookup(r, body, storage) ==
    LET r0 == [r EXCEPT !.kind = "search", !.body = body]
    IN  IF ~Truthy(model)
        THEN Finish(r0, Jsonify([error |-> PyStr(<<"AI Model not configured">>)], 500),
                    "model")
        ELSE IF ~Truthy(body) \/ "location" \notin DOMAIN body.f
        THEN Finish(r0, Jsonify([error |-> PyStr(<<"Location not provided">>)], 400),
                    "data")
        ELSE IF body.f["location"].t # "str"
        THEN Finish(r0, InternalServerError, "strip")
        ELSE LET location == NormalizeLocation(body.f["location"].s)
                 r1 == [r0 EXCEPT !.key = location, !.lookup_ver = ver.cache,
                                  !.seen = SeenCache(cacheTable, location)]
             IN  IF storage = "down"
                 THEN Finish(r1, InternalServerError, "get_cached_search")
                 ELSE LET cached_places == get_cached_search(cacheTable, location)
                      IN  IF Truthy(cached_places)
                          THEN Finish([r1 EXCEPT !.hit = TRUE],
                                      Jsonify([places |-> cached_places,
                                               token_count |-> PyInt(0)], 200), "")
                          ELSE [r1 EXCEPT !.pc = "generate"]

\* Variant: when the call of the backend raises, it is made once more.
search_places_generate_retrying(r, response) ==
    LET r1 == [r EXCEPT !.response = response, !.calls = @ + 1]
    IN  IF response.raised
        THEN IF r.calls = 0 THEN r1 ELSE SearchFailed(r1, "generate_content")
        ELSE LET token_count == total_token_count(response)
             IN  IF ~token_count.ok THEN SearchFailed(r1, "usage_metadata")
                 ELSE LET places_from_llm == json_loads(clean_response(response.text))
                          r2 == [r1 EXCEPT !.token_count = token_count.v]
                      IN  IF ~places_from_llm.ok THEN SearchFailed(r2, "json_loads")
                          ELSE [r2 EXCEPT !.value = places_from_llm.v, !.pc = "enrich"]

\* The call of the backend and the parsing of its answer.
search_places_generate(r, response) ==
    LET r1 == [r EXCEPT !.response = response, !.calls = @ + 1]
    IN  IF response.raised THEN SearchFailed(r1, "generate_content")
        ELSE LET token_count == total_token_count(response)
             IN  IF ~token_count.ok THEN SearchFailed(r1, "usage_metadata")
                 ELSE LET places_from_llm == json_loads(clean_response(response.text))
                          r2 == [r1 EXCEPT !.token_count = token_count.v]
                      IN  IF ~places_from_llm.ok THEN SearchFailed(r2, "json_loads")
                          ELSE [r2 EXCEPT !.value = places_from_llm.v, !.pc = "enrich"]

\* The loop over the places.
search_places_enrich(r, replies) ==
    LET r1 == [r EXCEPT !.replies = replies]
        enriched == enrich_places(r.value, replies)
    IN  IF ~enriched.ok THEN SearchFailed(r1, "enrich")
        ELSE [r1 EXCEPT !.value = enriched.v, !.pc = "save_read"]

\* The query of save_search_result.
search_places_save_read(r, storage) ==
    IF storage = "down" THEN SearchFailed(r, "save_read")
    ELSE [r EXCEPT !.existing = SelectCache(cacheTable, r.key), !.pc = "save_commit"]

\* The rest of save_search_result, and the return of the handler.
search_places_saved(r) ==
    Finish([r EXCEPT !.commit_ver = ver.cache + 1],
           Jsonify([places |-> r.value, token_count |-> r.token_count], 200), "")

SearchLookup(w) ==
    /\ req[w].pc = "idle"
    /\ started < MaxRequests
    /\ \E body \in SearchBodies, storage \in Storage :
          req' = [req EXCEPT ![w] = search_places_lookup(req[w], body, storage)]
    /\ started' = started + 1
    /\ UNCHANGED <<model, cacheTable, placeTable, ver>>

SearchGenerate(w) ==
    /\ req[w].pc = "generate"
    /\ req[w].kind = "search"
    /\ \E response \in SearchResponses :
          req' = [req EXCEPT ![w] = search_places_generate(req[w], response)]
    /\ UNCHANGED <<model, cacheTable, placeTable, ver, started>>

SearchEnrich(w) ==
    /\ req[w].pc = "enrich"
    /\ \E replies \in [1 .. LoopLength(req[w].value) -> WikiReplies] :
          req' = [req EXCEPT ![w] = search_places_enrich(req[w], replies)]
    /\ UNCHANGED <<model, cacheTable, placeTable, ver, started>>

SearchSaveRead(w) ==
    /\ req[w].pc = "save_read"
    /\ req[w].kind = "search"
    /\ \E storage \in Storage :
          req' = [req EXCEPT ![w] = search_places_save_read(req[w], storage)]
    /\ UNCHANGED <<model, cacheTable, placeTable, ver, started>>

SearchSaveCommit(w) ==
    /\ req[w].pc = "save_commit"
    /\ req[w].kind = "search"
    /\ \E storage \in Storage :
          LET saved == IF storage = "down" THEN Raise("OperationalError")
                       ELSE save_search_result(cacheTable, req[w].existing,
                                               req[w].key, req[w].value)
          IN  IF saved.ok
              THEN /\ cacheTable' = saved.v
                   /\ ver' = [ver EXCEPT !.cache = @ + 1]
                   /\ req' = [req EXCEPT ![w] = search_places_saved(req[w])]
              ELSE /\ req' = [req EXCEPT ![w] = SearchFailed(req[w], saved.exc)]
                   /\ UNCHANGED <<cacheTable, ver>>
    /\ UNCHANGED <<model, placeTable, started>>

(***************************************************************************)
(* get_place_details_route                                                 *)
(***************************************************************************)
DetailFailed(r, failed) ==
    Finish(r, Jsonify([error |-> PyStr(<<"Failed to generate details from AI model.">>)],
                      500), failed)

\* Variant: place_name is trimmed and lower-cased like a location.
get_place_details_route_lookup_normalizing(r, body, storage) ==
    LET r0 == [r EXCEPT !.kind = "detail", !.body = body]
    IN  IF ~Truthy(model)
        THEN Finish(r0, Jsonify([error |-> PyStr(<<"AI Model not configured">>)], 500),
                    "model")
        ELSE IF ~Truthy(body) \/ "place_name" \notin DOMAIN body.f
        THEN Finish(r0, Jsonify([error |-> PyStr(<<"Place name not provided">>)], 400),
                    "data")
        ELSE LET place_name == NormalizeLocation(body.f["place_name"].s)
                 r1 == [r0 EXCEPT !.key = place_name, !.lookup_ver = ver.place,
                                  !.seen = SeenPlace(placeTable, place_name)]
             IN  IF storage = "down"
                 THEN Finish(r1, InternalServerError, "get_place_details")
                 ELSE LET cached_details == get_place_details(placeTable, place_name)
                      IN  IF Truthy(cached_details)
                          THEN Finish([r1 EXCEPT !.hit = TRUE],
                                      Jsonify([description |-> cached_details,
                                               token_count |-> PyInt(0)], 200), "")
                          ELSE [r1 EXCEPT !.pc = "generate"]

get_place_details_route_lookup(r, body, storage) ==
    LET r0 == [r EXCEPT !.kind = "detail", !.body = body]
    IN  IF ~Truthy(model)
        THEN Finish(r0, Jsonify([error |-> PyStr(<<"AI Model not configured">>)], 500),
                    "model")
        ELSE IF ~Truthy(body) \/ "place_name" \notin DOMAIN body.f
        THEN Finish(r0, Jsonify([error |-> PyStr(<<"Place name not provided">>)], 400),
                    "data")
        ELSE LET place_name == body.f["place_name"].s
                 r1 == [r0 EXCEPT !.key = place_name, !.lookup_ver = ver.place,
                                  !.seen = SeenPlace(placeTable, place_name)]
             IN  IF storage = "down"
                 THEN Finish(r1, InternalServerError, "get_place_details")
                 ELSE LET cached_details == get_place_details(placeTable, place_name)
                      IN  IF Truthy(cached_details)
                          THEN Finish([r1 EXCEPT !.hit = TRUE],
                                      Jsonify([description |-> cached_details,
                                               token_count |-> PyInt(0)], 200), "")
                          ELSE [r1 EXCEPT !.pc = "generate"]

get_place_details_route_generate(r, response) ==
    LET r1 == [r EXCEPT !.response = response, !.calls = @ + 1]
    IN  IF response.raised THEN DetailFailed(r1, "generate_content")
        ELSE LET token_count == total_token_count(response)
             IN  IF ~token_count.ok THEN DetailFailed(r1, "usage_metadata")
                 ELSE [r1 EXCEPT !.token_count = token_count.v,
                                 !.value = PyStr(response.text), !.pc = "save_read"]

get_place_details_route_save_read(r, storage) ==
    IF storage = "down" THEN DetailFailed(r, "save_read")
    ELSE [r EXCEPT !.existing = SelectPlace(placeTable, r.key), !.pc = "save_commit"]

get_place_details_route_saved(r) ==
    Finish([r EXCEPT !.commit_ver = ver.place + 1],
           Jsonify([description |-> r.value, token_count |-> r.token_count], 200), "")

DetailLookup(w) ==
    /\ req[w].pc = "idle"
    /\ started < MaxRequests
    /\ \E body \in DetailBodies, storage \in Storage :
          req' = [req EXCEPT ![w] = get_place_details_route_lookup(req[w], body, storage)]
    /\ started' = started + 1
    /\ UNCHANGED <<model, cacheTable, placeTable, ver>>

DetailGenerate(w) ==
    /\ req[w].pc = "generate"
    /\ req[w].kind = "detail"
    /\ \E response \in DetailResponses :
          req' = [req EXCEPT ![w] = get_place_details_route_generate(req[w], response)]
    /\ UNCHANGED <<model, cacheTable, placeTable, ver, started>>

DetailSaveRead(w) ==
    /\ req[w].pc = "save_read"
    /\ req[w].kind = "detail"
    /\ \E storage \in Storage :
          req' = [req EXCEPT ![w] = get_place_details_route_save_read(req[w], storage)]
    /\ UNCHANGED <<model, cacheTable, placeTable, ver, started>>

DetailSaveCommit(w) ==
    /\ req[w].pc = "save_commit"
    /\ req[w].kind = "detail"
    /\ \E storage \in Storage :
          LET saved == IF storage = "down" THEN Raise("OperationalError")
                       ELSE save_place_details(placeTable, req[w].existing,
                                               req[w].key, req[w].value, PyNone)
          IN  IF saved.ok
              THEN /\ placeTable' = saved.v
                   /\ ver' = [ver EXCEPT !.place = @ + 1]
                   /\ req' = [req EXCEPT ![w] = get_place_details_route_saved(req[w])]
              ELSE /\ req' = [req EXCEPT ![w] = DetailFailed(req[w], saved.exc)]
                   /\ UNCHANGED <<placeTable, ver>>
    /\ UNCHANGED <<model, cacheTable, started>>

\* The worker has sent its response and is free for the next request.
NextRequest(w) ==
    /\ req[w].pc = "done"
    /\ req' = [req EXCEPT ![w] = Fresh]
    /\ UNCHANGED <<model, cacheTable, placeTable, ver, started>>

(***************************************************************************)
(* The application on an empty database                                    *)
(***************************************************************************)
Init ==
    /\ model \in {GenerativeModel, PyNone}
    /\ cacheTable = <<>>
    /\ placeTable = <<>>
    /\ req = [w \in Workers |-> Fresh]
    /\ ver = [cache |-> 0, place |-> 0]
    /\ started = 0

Next ==
    \E w \in Workers :
        \/ SearchLookup(w)
        \/ SearchGenerate(w)
        \/ SearchEnrich(w)
        \/ SearchSaveRead(w)
        \/ SearchSaveCommit(w)
        \/ DetailLookup(w)
        \/ DetailGenerate(w)
        \/ DetailSaveRead(w)
        \/ DetailSaveCommit(w)
        \/ NextRequest(w)

Spec == Init /\ [][Next]_vars

(***************************************************************************)
(* Detail requests on a database that already holds Place rows             *)
(***************************************************************************)
Thumbnail == PyStr(ThumbnailOf(EiffelTower))

\* Place rows an earlier run left behind; description and image_url are
\* nullable columns.
PersistedPlaceTables ==
    { <<[name |-> EiffelTower, description |-> PyNone, image_url |-> Thumbnail]>>,
      <<[name |-> EiffelTower, description |-> PyStr(<<>>), image_url |-> PyNone]>>,
      <<[name |-> EiffelTower, description |-> PyStr(Description2),
         image_url |-> Thumbnail]>> }

PersistedInit ==
    /\ model = GenerativeModel
    /\ cacheTable = <<>>
    /\ placeTable \in PersistedPlaceTables
    /\ req = [w \in Workers |-> Fresh]
    /\ ver = [cache |-> 0, place |-> 0]
    /\ started = 0

DetailNext ==
    \E w \in Workers :
        \/ DetailLookup(w)
        \/ DetailGenerate(w)
        \/ DetailSaveRead(w)
        \/ DetailSaveCommit(w)
        \/ NextRequest(w)

DetailSpec == PersistedInit /\ [][DetailNext]_vars

(***************************************************************************)
(* Properties                                                              *)
(***************************************************************************)
\* The request of worker w went through generation and its save committed.
Stored(w, kind) ==
    /\ req[w].kind = kind
    /\ req[w].pc = "done"
    /\ req[w].result.status = 200
    /\ ~req[w].hit

\* Worker q looked its key up, and the database answered, when worker p had
\* committed and no later commit had touched the table.
LookedUpRightAfter(q, p) ==
    /\ q # p
    /\ req[q].kind = req[p].kind
    /\ req[q].lookup_ver = req[p].commit_ver
    /\ req[q].failed \notin {"get_cached_search", "get_place_details"}

\* Worker q was answered from the cache with what worker p returned.
ServedWhatWasStored(q, p, field) ==
    /\ req[q].pc = "done"
    /\ req[q].hit
    /\ req[q].calls = 0
    /\ req[q].result.status = 200
    /\ req[q].result.json.f[field] = req[p].result.json.f[field]
    /\ req[q].result.json.f["token_count"] = [t |-> "number", n |-> 0]

\* C1 as stated: for every list a search request generates and stores, an
\* identical request handled next, with no commit to the cache in between,
\* returns the same list with token_count 0 and without generation.
C1_IdempotentForEveryList ==
    \A p, q \in Workers :
        ( /\ Stored(p, "search")
          /\ LookedUpRightAfter(q, p)
          /\ req[q].body = req[p].body )
        => ServedWhatWasStored(q, p, "places")

\* C1 amended: the same, for every non-empty list the first request
\* generates and stores.
C1_IdempotentForNonEmptyList ==
    \A p, q \in Workers :
        ( /\ Stored(p, "search")
          /\ req[p].value.t = "list" /\ req[p].value.items # <<>>
          /\ LookedUpRightAfter(q, p)
          /\ req[q].body = req[p].body )
        => ServedWhatWasStored(q, p, "places")

C1_Witness ==
    \E p, q \in Workers :
        /\ Stored(p, "search")
        /\ Len(req[p].value.items) = 2
        /\ LookedUpRightAfter(q, p)
        /\ req[q].body = req[p].body
        /\ req[q].hit

\* The row of a key, when the table holds one.
CacheRow(location) == cacheTable[SelectCache(cacheTable, location)]
PlaceRow(place_name) == placeTable[SelectPlace(placeTable, place_name)]

\* Worker p asked for the details of a place when the Place table was empty,
\* and the database answered its lookup.
FirstDetailRequest(p) ==
    /\ req[p].kind = "detail"
    /\ req[p].lookup_ver = 0
    /\ req[p].seen = "no row"
    /\ req[p].failed # "get_place_details"

\* The first half of C2, which holds as stated: a detail request on an empty
\* store calls the backend once, and when it succeeds it has written a row
\* for exactly the name it was given.
GeneratesOnceAndWrites(p) ==
    /\ req[p].calls = (IF req[p].pc = "generate" THEN 0 ELSE 1)
    /\ Stored(p, "detail") =>
          /\ SelectPlace(placeTable, req[p].body.f["place_name"].s) # 0
          /\ ver.place = req[p].commit_ver =>
                PlaceRow(req[p].body.f["place_name"].s).description = req[p].value

ParisBodies ==
    { PyDict([location |-> PyStr(Paris)]),
      PyDict([location |-> PyStr(ParisPadded)]),
      PyDict([location |-> PyStr(ParisUpper)]) }

ParisKey == <<"p", "a", "r", "i", "s">>

\* C3: "Paris", " paris " and "PARIS" are looked up and stored under the one
\* key "paris": the table never holds a row under another spelling nor two
\* rows for it, and once one of the requests has populated the entry (stored
\* a list with places in it), a request with any of the spellings, handled
\* next, is a hit on that same entry.
C3_OneKeyForAllSpellings ==
    /\ \A w \in Workers :
          req[w].body \in ParisBodies /\ req[w].lookup_ver >= 0 => req[w].key = ParisKey
    /\ \A i \in DOMAIN cacheTable :
          cacheTable[i].search_term \notin {Paris, ParisPadded, ParisUpper}
    /\ Cardinality({i \in DOMAIN cacheTable : cacheTable[i].search_term = ParisKey}) <= 1
    /\ \A p, q \in Workers :
          ( /\ Stored(p, "search")
            /\ req[p].value.t = "list" /\ req[p].value.items # <<>>
            /\ req[p].body \in ParisBodies
            /\ LookedUpRightAfter(q, p)
            /\ req[q].body \in ParisBodies )
          => /\ ServedWhatWasStored(q, p, "places")
             /\ req[q].result.json.f["places"] = CacheRow(ParisKey).results

C3_Witness ==
    \E p, q \in Workers :
        /\ Stored(p, "search")
        /\ req[p].body = PyDict([location |-> PyStr(Paris)])
        /\ LookedUpRightAfter(q, p)
        /\ req[q].body = PyDict([location |-> PyStr(ParisUpper)])
        /\ req[q].hit
        /\ Len(cacheTable) = 1

\* The texts of SearchResponses that are not JSON: prose around the payload.
IsMalformedText(text) == \E i \in DOMAIN text : text[i] = Prose

\* The backend answered the search of worker w with a text that is not JSON.
GotMalformedText(w) ==
    /\ req[w].kind = "search"
    /\ req[w].calls = 1
    /\ ~req[w].response.raised
    /\ req[w].response.usage_metadata # PyNone
    /\ IsMalformedText(req[w].response.text)

\* C4: a search whose backend text is not valid JSON ends with an error
\* response and commits nothing to the cache, and a request for the same key
\* that looks up the same cache state is not served from the cache: it goes
\* on to call the backend.
C4_MalformedOutputRejected ==
    \A p, q \in Workers :
        GotMalformedText(p) =>
            /\ req[p].pc = "done"
            /\ req[p].result.status = 500
            /\ "error" \in DOMAIN req[p].result.json.f
            /\ req[p].commit_ver = 0 - 1
            /\ req[p].seen = "no row" /\ ver.cache = req[p].lookup_ver =>
                  SelectCache(cacheTable, req[p].key) = 0
            /\ ( /\ q # p
                 /\ req[q].kind = "search"
                 /\ req[q].key = req[p].key
                 /\ req[q].lookup_ver = req[p].lookup_ver
                 /\ req[q].failed # "get_cached_search" )
               => /\ ~req[q].hit
                  /\ req[q].pc = "generate" \/ req[q].calls = 1

C4_Witness ==
    \E p, q \in Workers :
        /\ GotMalformedText(p)
        /\ req[p].pc = "done"
        /\ q # p
        /\ req[q].key = req[p].key
        /\ req[q].lookup_ver = req[p].lookup_ver
        /\ req[q].seen = "no row"
        /\ req[q].calls = 1
        /\ req[p].lookup_ver = 0 /\ SelectCache(cacheTable, req[p].key) = 0

\* The storage errors a cache write can end with.
WriteErrors == {"save_read", "OperationalError", "IntegrityError"}

\* C5: when generation succeeded and the cache write raises a storage error,
\* the request still returns the generated result as a success.
C5_WriteFailureStillReturnsResult ==
    \A w \in Workers :
        req[w].pc = "done" /\ req[w].failed \in WriteErrors =>
            /\ req[w].result.status = 200
            /\ req[w].result.json.f["token_count"] = ToJson(req[w].token_count)

\* C6: when the cache lookup of a request raises a storage error, the
\* request goes on to generation as on a miss.
C6_ReadFailureIsAMiss ==
    \A w \in Workers :
        req[w].failed \in {"get_cached_search", "get_place_details"} =>
            req[w].pc = "generate" \/ req[w].calls = 1

\* What the commit of worker w leaves in row i of its table.
RowSavedBy(w, i) ==
    IF req[w].kind = "search"
    THEN [search_term |-> req[w].key, results |-> ToJson(req[w].value)]
    ELSE [name |-> req[w].key, description |-> req[w].value,
          image_url |-> IF i \in DOMAIN placeTable
                        THEN placeTable[i].image_url ELSE PyNone]

\* Every row of the table after a step is a row it held before, or exactly
\* the row one committing save call supplied.
WholeRows(old, new, kind) ==
    /\ Len(new) >= Len(old)
    /\ \A i \in DOMAIN new :
          \/ i \in DOMAIN old /\ new[i] = old[i]
          \/ \E w \in Workers :
                /\ req[w].pc = "save_commit"
                /\ req[w].kind = kind
                /\ req'[w].pc = "done"
                /\ new[i] = RowSavedBy(w, i)

\* A lookup that hits returns the whole value of one row of the table.
ReadsWholeRow(w) ==
    req[w].pc = "idle" /\ req'[w].hit =>
        \/ \E i \in DOMAIN cacheTable :
              /\ req'[w].kind = "search"
              /\ cacheTable[i].search_term = req'[w].key
              /\ req'[w].result.json.f["places"] = cacheTable[i].results
        \/ \E i \in DOMAIN placeTable :
              /\ req'[w].kind = "detail"
              /\ placeTable[i].name = req'[w].key
              /\ req'[w].result.json.f["description"] = ToJson(placeTable[i].description)

\* C7: however the query and the commit of concurrent save_search_result or
\* save_place_details calls interleave, every step leaves in each row either
\* what it held or the complete value one call supplied, and a reader gets
\* no entry or the complete value of one row.
C7_WholeValueOfOneCall ==
    [][ /\ WholeRows(cacheTable, cacheTable', "search")
        /\ WholeRows(placeTable, placeTable', "detail")
        /\ \A w \in Workers : ReadsWholeRow(w) ]_vars

\* Two saves of one key raced: the second looked up before the first
\* committed, and the row holds the value of the one that committed last.
C7_Witness ==
    \E p, q \in Workers :
        /\ Stored(p, "search") /\ Stored(q, "search")
        /\ req[p].key = req[q].key
        /\ req[p].value # req[q].value
        /\ req[q].lookup_ver < req[p].commit_ver
        /\ req[q].commit_ver = req[p].commit_ver + 1
        /\ ver.cache = req[q].commit_ver
        /\ CacheRow(req[q].key).results = ToJson(req[q].value)
        /\ Len(cacheTable) = 1

\* The backend answered the search of worker w with the two places.
GotTwoPlaces(w) ==
    /\ req[w].kind = "search"
    /\ req[w].calls = 1
    /\ ~req[w].response.raised
    /\ req[w].response.usage_metadata # PyNone
    /\ ~IsMalformedText(req[w].response.text)
    /\ \E i \in DOMAIN req[w].response.text :
          req[w].response.text[i] = Payload(TwoPlaces)

\* The two places after the image lookups came back with replies.
TwoPlacesWith(replies) ==
    LET image(i, name) == IF replies[i] = "thumbnail"
                          THEN PyStr(<<"w", ":">> \o name) ELSE PyNone
    IN  PyList(<<PyDict([name |-> PyStr(EiffelTower), image_url |-> image(1, EiffelTower),
                         has_details |-> PyBool(FALSE)]),
                 PyDict([name |-> PyStr(Louvre), image_url |-> image(2, Louvre),
                         has_details |-> PyBool(FALSE)])>>)

\* C8: on a search miss with valid output, whichever image lookups fail, the
\* request does not fail for it: a failed place gets image_url None, every
\* other place the URL its lookup returned, and, the database answering, the
\* request succeeds with the full list and writes the full list to the cache.
C8_PartialEnrichment ==
    \A w \in Workers :
        GotTwoPlaces(w) /\ req[w].pc # "enrich" =>
            /\ req[w].value = TwoPlacesWith(req[w].replies)
            /\ req[w].pc = "done" => req[w].failed \in WriteErrors \cup {""}
            /\ req[w].pc = "done" /\ req[w].failed = "" =>
                  /\ req[w].result.status = 200
                  /\ req[w].result.json.f["places"] = ToJson(TwoPlacesWith(req[w].replies))
                  /\ ver.cache = req[w].commit_ver =>
                        CacheRow(req[w].key).results = ToJson(TwoPlacesWith(req[w].replies))

C8_Witness ==
    \E w \in Workers :
        /\ GotTwoPlaces(w)
        /\ req[w].replies = <<"http_error", "thumbnail">>
        /\ req[w].pc = "done"
        /\ req[w].result.status = 200
        /\ ver.cache = req[w].commit_ver
        /\ CacheRow(req[w].key).results.items[1].f["image_url"] = JNull
        /\ CacheRow(req[w].key).results.items[2].f["image_url"]
              = JStr(<<"w", ":">> \o Louvre)

\* C9: a Place row whose description is empty or NULL is never a cache hit:
\* get_place_details returns None for it, and a detail request for its name
\* goes on to generation and, when it succeeds, has overwritten the
\* description.
C9_EmptyDescriptionIsAMiss ==
    /\ \A i \in DOMAIN placeTable :
          placeTable[i].description \in {PyNone, PyStr(<<>>)} =>
              get_place_details(placeTable, placeTable[i].name) = PyNone
    /\ \A w \in Workers :
          ( /\ req[w].kind = "detail"
            /\ req[w].seen \in {"null", "empty"}
            /\ req[w].failed # "get_place_details" )
          => /\ ~req[w].hit
             /\ req[w].pc = "generate" \/ req[w].calls = 1
             /\ Stored(w, "detail") /\ ver.place = req[w].commit_ver =>
                   PlaceRow(req[w].key).description = req[w].value

C9_Witness ==
    \E w \in Workers :
        /\ req[w].seen = "null"
        /\ Stored(w, "detail")
        /\ req[w].value = PyStr(Description1)
        /\ PlaceRow(req[w].key).description = PyStr(Description1)

\* C10: when the response of the backend carries no usage metadata, the
\* generation still succeeds and the token count reported is zero.
C10_NoUsageMetadataCountsZero ==
    \A w \in Workers :
        ( /\ req[w].calls = 1
          /\ ~req[w].response.raised
          /\ req[w].response.usage_metadata = PyNone )
        => /\ req[w].failed # "usage_metadata"
           /\ req[w].pc = "done" /\ req[w].failed = "" =>
                 req[w].result.json.f["token_count"] = [t |-> "number", n |-> 0]

(***************************************************************************)
(* The application restarted on a database that already holds rows         *)
(***************************************************************************)
\* The Cache row an earlier search for Paris left behind.
PersistedCacheTable ==
    <<[search_term |-> ParisKey,
       results |-> ToJson(TwoPlacesWith(<<"thumbnail", "http_error">>))]>>

\* The Place row an earlier detail request left behind.
PersistedPlaceTable ==
    <<[name |-> EiffelTower, description |-> PyStr(Description2), image_url |-> PyNone]>>

\* The tables persist over a restart; the backend handle is configured anew
\* and is None when that raised.
RestartInit ==
    /\ model \in {GenerativeModel, PyNone}
    /\ cacheTable = PersistedCacheTable
    /\ placeTable = PersistedPlaceTable
    /\ req = [w \in Workers |-> Fresh]
    /\ ver = [cache |-> 0, place |-> 0]
    /\ started = 0

RestartSpec == RestartInit /\ [][Next]_vars

NotConfigured == Jsonify([error |-> PyStr(<<"AI Model not configured">>)], 500)

\* C11: when model is None, every search and detail request, whatever its
\* body and whether or not its key is cached, ends with the 500
\* "AI Model not configured" response before any cache read, with no call of
\* the backend and no cache write: the tables stay as they were.
C11_UnconfiguredFailsFast ==
    model = PyNone =>
        /\ cacheTable = PersistedCacheTable
        /\ placeTable = PersistedPlaceTable
        /\ ver = [cache |-> 0, place |-> 0]
        /\ \A w \in Workers :
              req[w].kind # "none" =>
                  /\ req[w].pc = "done"
                  /\ req[w].result = NotConfigured
                  /\ req[w].failed = "model"
                  /\ req[w].lookup_ver = 0 - 1
                  /\ req[w].seen = ""
                  /\ ~req[w].hit
                  /\ req[w].calls = 0
                  /\ req[w].commit_ver = 0 - 1

\* With model None, a search for the cached Paris and a detail request for
\* the cached Eiffel Tower have both been refused.
C11_Witness ==
    /\ model = PyNone
    /\ \E p, q \in Workers :
          /\ req[p].kind = "search"
          /\ req[p].body = PyDict([location |-> PyStr(Paris)])
          /\ SelectCache(cacheTable, NormalizeLocation(Paris)) # 0
          /\ req[p].result = NotConfigured
          /\ req[q].kind = "detail"
          /\ req[q].body = PyDict([place_name |-> PyStr(EiffelTower)])
          /\ SelectPlace(placeTable, EiffelTower) # 0
          /\ req[q].result = NotConfigured

\* The body of the request of worker w lacks its parameter, or the parameter
\* is not a string.
InvalidParameter(w) ==
    LET body == req[w].body
        name == IF req[w].kind = "search" THEN "location" ELSE "place_name"
    IN  /\ req[w].kind \in {"search", "detail"}
        /\ \/ body.t # "dict"
           \/ name \notin DOMAIN body.f
           \/ body.f[name].t # "str"

\* C12: with the backend configured, a request whose parameter is missing or
\* malformed is answered with the 400 validation error, and nothing else
\* happens: no cache lookup, no call of the backend, no commit.
C12_InvalidParameterIsRejected ==
    \A w \in Workers :
        Truthy(model) /\ InvalidParameter(w) =>
            /\ req[w].pc = "done"
            /\ req[w].result.status = 400
            /\ req[w].result.json # JNull
            /\ req[w].lookup_ver = 0 - 1
            /\ ~req[w].hit
            /\ req[w].calls = 0
            /\ req[w].commit_ver = 0 - 1

(***************************************************************************)
(* save_place_details called with every kind of argument                   *)
(***************************************************************************)
SaveNames == {EiffelTower, Louvre}
SaveDescriptions == {PyStr(Description1), PyStr(<<>>)}
SaveImages == {PyNone, PyStr(<<>>), Thumbnail, PyStr(ThumbnailOf(Louvre))}

\* A call of save_place_details up to the end of its query; body keeps the
\* arguments of the call.
save_place_details_query(r, place_name, description, image_url) ==
    [r EXCEPT !.kind = "save",
              !.body = PyDict([place_name |-> PyStr(place_name),
                               description |-> description,
                               image_url |-> image_url]),
              !.key = place_name,
              !.value = description,
              !.lookup_ver = ver.place,
              !.existing = SelectPlace(placeTable, place_name),
              !.pc = "save_commit"]

SavePlaceDetailsQuery(w) ==
    /\ req[w].pc = "idle"
    /\ started < MaxRequests
    /\ \E place_name \in SaveNames, description \in SaveDescriptions,
          image_url \in SaveImages :
          req' = [req EXCEPT ![w] = save_place_details_query(req[w], place_name,
                                                             description, image_url)]
    /\ started' = started + 1
    /\ UNCHANGED <<model, cacheTable, placeTable, ver>>

\* The rest of the call: the assignments, the add and the commit.
SavePlaceDetailsCommit(w) ==
    /\ req[w].pc = "save_commit"
    /\ req[w].kind = "save"
    /\ LET saved == save_place_details(placeTable, req[w].existing, req[w].key,
                                       req[w].value, req[w].body.f["image_url"])
       IN  IF saved.ok
           THEN /\ placeTable' = saved.v
                /\ ver' = [ver EXCEPT !.place = @ + 1]
                /\ req' = [req EXCEPT ![w] = [@ EXCEPT !.pc = "done",
                                                       !.commit_ver = ver.place + 1]]
           ELSE /\ req' = [req EXCEPT ![w] = [@ EXCEPT !.pc = "done",
                                                       !.failed = saved.exc]]
                /\ UNCHANGED <<placeTable, ver>>
    /\ UNCHANGED <<model, cacheTable, started>>

SaveInit ==
    /\ model = GenerativeModel
    /\ cacheTable = <<>>
    /\ placeTable \in {<<>>} \cup PersistedPlaceTables
    /\ req = [w \in Workers |-> Fresh]
    /\ ver = [cache |-> 0, place |-> 0]
    /\ started = 0

SaveNext ==
    \E w \in Workers :
        \/ SavePlaceDetailsQuery(w)
        \/ SavePlaceDetailsCommit(w)
        \/ NextRequest(w)

SaveSpec == SaveInit /\ [][SaveNext]_vars

\* The call of worker w returns in this step.
SaveReturns(w) ==
    /\ req[w].kind = "save"
    /\ req[w].pc = "save_commit"
    /\ req'[w].pc = "done"
    /\ req'[w].failed = ""

\* C13: a save_place_details call that returns leaves under its name a row
\* with the description it was given; the image_url of that row is the one it
\* was given when that is not empty (or the row is new), and what the row
\* held otherwise. No step removes a row or takes a non-empty image_url away
\* from one.
C13_ImageNeverReverts ==
    [][ /\ \A w \in Workers :
              SaveReturns(w) =>
                  LET args == req[w].body.f
                      old == SelectPlace(placeTable, req[w].key)
                      new == SelectPlace(placeTable', req[w].key)
                  IN  /\ new # 0
                      /\ placeTable'[new].description = args["description"]
                      /\ placeTable'[new].image_url =
                            IF Truthy(args["image_url"]) \/ old = 0
                            THEN args["image_url"]
                            ELSE placeTable[old].image_url
        /\ \A i \in DOMAIN placeTable :
              /\ i \in DOMAIN placeTable'
              /\ placeTable'[i].name = placeTable[i].name
              /\ Truthy(placeTable[i].image_url) => Truthy(placeTable'[i].image_url)
      ]_vars

\* A call with a thumbnail was followed by a call for the same name without
\* an image, and the row still holds the thumbnail beside the new description.
C13_Witness ==
    \E p, q \in Workers :
        /\ p # q
        /\ req[p].kind = "save" /\ req[q].kind = "save"
        /\ req[p].key = req[q].key
        /\ req[p].body.f["image_url"] = Thumbnail
        /\ req[q].body.f["image_url"] = PyNone
        /\ req[q].value # req[p].value
        /\ req[p].commit_ver >= 1
        /\ req[q].lookup_ver = req[p].commit_ver
        /\ req[q].commit_ver = ver.place
        /\ PlaceRow(req[q].key).image_url = Thumbnail
        /\ PlaceRow(req[q].key).description = req[q].value

\* The payloads of SearchResponses the loop over the places raises on.
NotPlaces == {NamelessPlace, NotAList}

\* The call of the backend for the request of worker w raised, or its output
\* does not pass: the text of a search is not JSON, or is not a list of
\* places with names.
GenerationFailed(w) ==
    /\ req[w].kind \in {"search", "detail"}
    /\ req[w].calls = 1
    /\ \/ req[w].response.raised
       \/ /\ req[w].kind = "search"
          /\ \/ IsMalformedText(req[w].response.text)
             \/ \E i \in DOMAIN req[w].response.text :
                   \E j \in NotPlaces : req[w].response.text[i] = Payload(j)

\* C14: a request whose backend call raised or whose backend output does not
\* pass ends with an error response and never gets to its cache write; the
\* step that ends it leaves both tables as they are, and a table changes only
\* in the commit of a request that got through generation and validation.
C14_FailedGenerationWritesNothing ==
    [][ /\ \A w \in Workers :
              GenerationFailed(w)' =>
                  /\ req'[w].pc \in {"enrich", "done"}
                  /\ req'[w].existing = 0
                  /\ req'[w].commit_ver = 0 - 1
                  /\ req'[w].pc = "done" =>
                        /\ req'[w].result.status = 500
                        /\ "error" \in DOMAIN req'[w].result.json.f
                        /\ req[w].pc # "done" =>
                              cacheTable' = cacheTable /\ placeTable' = placeTable
        /\ cacheTable' # cacheTable \/ placeTable' # placeTable =>
              \E w \in Workers :
                  /\ req[w].pc = "save_commit"
                  /\ ~GenerationFailed(w)
                  /\ req'[w].pc = "done"
                  /\ req'[w].failed = ""
      ]_vars

\* Two searches for one key missed; one stored its list, the other failed in
\* the loop after its first place was enriched, and the row is the first's.
C14_Witness ==
    \E p, q \in Workers :
        /\ Stored(p, "search")
        /\ req[q].kind = "search"
        /\ req[q].key = req[p].key
        /\ GenerationFailed(q)
        /\ req[q].failed = "enrich"
        /\ req[q].response.text = <<Payload(NamelessPlace)>>
        /\ req[q].result.status = 500
        /\ ver.cache = req[p].commit_ver
        /\ Len(cacheTable) = 1
        /\ CacheRow(req[p].key).results = ToJson(req[p].value)

\* The lookup of the request of worker w was answered and found nothing to
\* serve.
Missed(w) ==
    /\ req[w].kind \in {"search", "detail"}
    /\ req[w].lookup_ver >= 0
    /\ req[w].failed \notin {"get_cached_search", "get_place_details"}
    /\ ~req[w].hit

\* C15: a request calls the backend at most once: not at all when its lookup
\* hits, and exactly once when it misses (the call is still ahead while the
\* request is at the generate step), also when that one call raised.
C15_AtMostOneGeneration ==
    \A w \in Workers :
        /\ req[w].calls \in {0, 1}
        /\ req[w].hit =>
              /\ req[w].calls = 0
              /\ req[w].pc = "done"
              /\ req[w].result.json.f["token_count"] = [t |-> "number", n |-> 0]
        /\ Missed(w) => req[w].calls = (IF req[w].pc = "generate" THEN 0 ELSE 1)
        /\ req[w].calls = 1 /\ req[w].response.raised =>
              /\ req[w].pc = "done"
              /\ req[w].result.status = 500

\* One request was served from the cache without a call, another made its
\* one call, which raised, and was ended.
C15_Witness ==
    \E p, q \in Workers :
        /\ req[p].hit /\ req[p].calls = 0
        /\ Missed(q)
        /\ req[q].calls = 1
        /\ req[q].response.raised
        /\ req[q].pc = "done"

\* No two rows of Cache have one search_term, no two rows of Place one name.
OneEntryPerKey(cache, place) ==
    /\ \A i, j \in DOMAIN cache : cache[i].search_term = cache[j].search_term => i = j
    /\ \A i, j \in DOMAIN place : place[i].name = place[j].name => i = j

\* The save of worker w ends in this step, committed or not.
SaveEnds(w, kind) ==
    /\ req[w].kind = kind
    /\ req[w].pc = "save_commit"
    /\ req'[w].pc = "done"

\* C16: after every step each table holds at most one row per key. A save
\* that ends when its key has a row adds no row, and when it commits that row
\* holds exactly the new value; a save commits a new row only when its key
\* has none, so of two first inserts of one key only one is committed.
C16_OneEntryPerKey ==
    [][ /\ OneEntryPerKey(cacheTable', placeTable')
        /\ \A w \in Workers :
              /\ SaveEnds(w, "search") =>
                    LET i == SelectCache(cacheTable, req[w].key)
                    IN  IF i # 0
                        THEN /\ Len(cacheTable') = Len(cacheTable)
                             /\ req'[w].failed = "" =>
                                   /\ req[w].existing = i
                                   /\ cacheTable' = [cacheTable EXCEPT ![i].results =
                                                        ToJson(req[w].value)]
                        ELSE req'[w].failed = "" =>
                                cacheTable' = Append(cacheTable,
                                                  [search_term |-> req[w].key,
                                                   results |-> ToJson(req[w].value)])
              /\ SaveEnds(w, "detail") =>
                    LET i == SelectPlace(placeTable, req[w].key)
                    IN  IF i # 0
                        THEN /\ Len(placeTable') = Len(placeTable)
                             /\ req'[w].failed = "" =>
                                   /\ req[w].existing = i
                                   /\ placeTable' = [placeTable EXCEPT ![i].description =
                                                        req[w].value]
                        ELSE req'[w].failed = "" =>
                                placeTable' = Append(placeTable,
                                                  [name |-> req[w].key,
                                                   description |-> req[w].value,
                                                   image_url |-> PyNone])
      ]_vars

\* Two searches for one key both found no row in their save; the first
\* committed its insert, the second got the IntegrityError, one row is there.
C16_Witness ==
    \E p, q \in Workers :
        /\ Stored(p, "search")
        /\ req[q].kind = "search"
        /\ req[q].key = req[p].key
        /\ req[q].failed = "IntegrityError"
        /\ Cardinality({i \in DOMAIN cacheTable :
                           cacheTable[i].search_term = req[p].key}) = 1

\* Workers p and q both looked the same key up and missed before either of
\* them had committed anything.
BothMissedBeforeAnyWrite(p, q) ==
    /\ p # q
    /\ Missed(p) /\ Missed(q)
    /\ req[p].kind = req[q].kind
    /\ req[p].key = req[q].key
    /\ req[p].seen = "no row" /\ req[q].seen = "no row"
    /\ req[p].commit_ver >= 0 => req[q].lookup_ver < req[p].commit_ver
    /\ req[q].commit_ver >= 0 => req[p].lookup_ver < req[q].commit_ver

\* The request of worker w is in its cache write or past it.
AttemptedWrite(w) ==
    \/ req[w].pc \in {"save_read", "save_commit"}
    \/ req[w].commit_ver >= 0
    \/ req[w].failed \in WriteErrors

\* What worker w takes to its cache write is what its own response gives.
ValidatedOwnOutput(w) ==
    /\ ~req[w].response.raised
    /\ IF req[w].kind = "detail" THEN req[w].value = PyStr(req[w].response.text)
       ELSE LET parsed == json_loads(clean_response(req[w].response.text))
            IN  /\ parsed.ok
                /\ enrich_places(parsed.v, req[w].replies).ok
                /\ req[w].value = enrich_places(parsed.v, req[w].replies).v

\* C17: when two requests for one key with no row both look up before either
\* has written, neither waits for or is served by the other: each goes on to
\* its own call of the backend, and each gets to its cache write only with
\* the parsed output of its own call.
C17_NoInFlightDeduplication ==
    \A p, q \in Workers :
        BothMissedBeforeAnyWrite(p, q) =>
            /\ req[p].pc = "generate" \/ req[p].calls = 1
            /\ AttemptedWrite(p) => ValidatedOwnOutput(p)

\* Two searches for paris have each called the backend and each stands
\* before its commit.
C17_Witness ==
    \E p, q \in Workers :
        /\ BothMissedBeforeAnyWrite(p, q)
        /\ req[p].key = ParisKey
        /\ req[p].kind = "search"
        /\ req[p].calls = 1 /\ req[q].calls = 1
        /\ req[p].pc = "save_commit" /\ req[q].pc = "save_commit"
        /\ req[p].response # req[q].response

\* Two names that differ, but only in letter case or surrounding whitespace.
DiffersOnlyInCaseOrWhitespace(a, b) ==
    /\ a # b
    /\ Lower(Strip(a)) = Lower(Strip(b))

\* A string as strip().lower() leaves it.
IsTrimmedLowerCase(s) ==
    /\ \A i \in DOMAIN s : \A u \in DOMAIN UpperCase : s[i] # UpperCase[u]
    /\ s # <<>> => s[1] \notin Whitespace /\ s[Len(s)] \notin Whitespace

\* C18: a detail request is looked up and stored under place_name exactly as
\* sent, while a search is looked up under its location trimmed and in lower
\* case. After a detail record was stored for a name, as the first row of the
\* table, a request for a name that differs from it only in letter case or
\* surrounding whitespace, handled next, is a miss, calls the backend itself
\* and, when it succeeds, has added a second row, beside the first.
C18_DetailKeysAreExact ==
    /\ \A w \in Workers :
          /\ req[w].kind = "detail" /\ req[w].lookup_ver >= 0 =>
                req[w].key = req[w].body.f["place_name"].s
          /\ req[w].kind = "search" /\ req[w].lookup_ver >= 0 =>
                /\ IsTrimmedLowerCase(req[w].key)
                /\ req[w].key = Lower(Strip(req[w].body.f["location"].s))
    /\ \A p, q \in Workers :
          ( /\ FirstDetailRequest(p)
            /\ Stored(p, "detail")
            /\ req[p].commit_ver = 1
            /\ LookedUpRightAfter(q, p)
            /\ DiffersOnlyInCaseOrWhitespace(req[q].body.f["place_name"].s,
                                             req[p].body.f["place_name"].s) )
          => /\ ~req[q].hit
             /\ req[q].seen = "no row"
             /\ req[q].pc = "generate" \/ req[q].calls = 1
             /\ Stored(q, "detail") /\ ver.place = req[q].commit_ver =>
                   /\ Len(placeTable) = 2
                   /\ placeTable[1] = [name |-> req[p].body.f["place_name"].s,
                                       description |-> req[p].value,
                                       image_url |-> PyNone]
                   /\ placeTable[2] = [name |-> req[q].body.f["place_name"].s,
                                       description |-> req[q].value,
                                       image_url |-> PyNone]

\* A record was stored for "Eiffel Tower"; the next request, for the name
\* with a space on either side, generated and stored a record of its own.
C18_Witness ==
    \E p, q \in Workers :
        /\ FirstDetailRequest(p)
        /\ Stored(p, "detail")
        /\ req[p].key = EiffelTower
        /\ LookedUpRightAfter(q, p)
        /\ req[q].key = EiffelTowerPadded
        /\ Stored(q, "detail")
        /\ req[q].calls = 1
        /\ Len(placeTable) = 2

\* The backend answered the search of worker w with the empty JSON list.
GotNoPlaces(w) ==
    /\ req[w].kind = "search"
    /\ req[w].calls = 1
    /\ ~req[w].response.raised
    /\ req[w].response.usage_metadata # PyNone
    /\ req[w].response.text = <<Payload(NoPlaces)>>

\* C19: a search whose backend output is the empty list succeeds, the
\* database answering, and writes the empty list to the cache. A Cache row
\* that holds the empty list is never served: a search that finds it is a
\* miss, calls the backend and, when it succeeds, has replaced the results of
\* that row.
C19_EmptyListIsNeverServed ==
    /\ \A w \in Workers :
          GotNoPlaces(w) =>
              /\ req[w].pc = "done" => req[w].failed \in WriteErrors \cup {""}
              /\ req[w].pc = "done" /\ req[w].failed = "" =>
                    /\ req[w].result.status = 200
                    /\ req[w].result.json.f["places"] = JArray(<<>>)
                    /\ ver.cache = req[w].commit_ver =>
                          CacheRow(req[w].key).results = JArray(<<>>)
    /\ \A i \in DOMAIN cacheTable :
          cacheTable[i].results = JArray(<<>>) =>
              ~Truthy(get_cached_search(cacheTable, cacheTable[i].search_term))
    /\ \A w \in Workers :
          ( /\ req[w].kind = "search"
            /\ req[w].seen = "empty"
            /\ req[w].failed # "get_cached_search" )
          => /\ ~req[w].hit
             /\ req[w].pc = "generate" \/ req[w].calls = 1
             /\ Stored(w, "search") /\ ver.cache = req[w].commit_ver =>
                   /\ CacheRow(req[w].key).results = ToJson(req[w].value)
                   /\ Cardinality({i \in DOMAIN cacheTable :
                                      cacheTable[i].search_term = req[w].key}) = 1

\* A search stored the empty list; the next search for the key missed on it,
\* generated the two places and put them in the place of the empty list.
C19_Witness ==
    \E p, q \in Workers :
        /\ GotNoPlaces(p)
        /\ Stored(p, "search")
        /\ LookedUpRightAfter(q, p)
        /\ req[q].key = req[p].key
        /\ req[q].seen = "empty"
        /\ GotTwoPlaces(q)
        /\ Stored(q, "search")
        /\ ver.cache = req[q].commit_ver
        /\ Len(cacheTable) = 1
        /\ CacheRow(req[q].key).results = ToJson(req[q].value)

\* The save of worker w commits in this step.
SaveCommits(w, kind) ==
    /\ SaveEnds(w, kind)
    /\ req'[w].failed = ""

\* The entry the save of worker w is about to assign to holds something a
\* lookup would serve.
OverwritesFilledEntry(w) ==
    /\ req[w].existing # 0
    /\ IF req[w].kind = "search"
       THEN Truthy(FromJson(cacheTable[req[w].existing].results))
       ELSE Truthy(placeTable[req[w].existing].description)

\* Worker p wrote the entry that the key of worker w holds now.
WroteCurrentEntry(p, w) ==
    /\ p # w
    /\ Stored(p, req[w].kind)
    /\ req[p].key = req[w].key
    /\ req[p].commit_ver = (IF req[w].kind = "search" THEN ver.cache ELSE ver.place)

\* C20: the step in which a lookup hits changes no table, and a request that
\* was served from the cache is done and commits nothing. Cache changes only
\* in the commit of a search, Place only in the commit of a detail request,
\* and never both in one step. A commit that overwrites an entry a lookup
\* would serve is the commit of a request whose own lookup did not meet that
\* entry: it looked up before the entry was written.
C20_HitLeavesStoresUnchanged ==
    [][ /\ \A w \in Workers :
              /\ req'[w].hit /\ ~req[w].hit =>
                    cacheTable' = cacheTable /\ placeTable' = placeTable
              /\ req[w].hit => req[w].pc = "done" /\ req[w].commit_ver = 0 - 1
        /\ cacheTable' # cacheTable =>
              /\ placeTable' = placeTable
              /\ \E w \in Workers : SaveCommits(w, "search") /\ ~req[w].hit
        /\ placeTable' # placeTable =>
              /\ cacheTable' = cacheTable
              /\ \E w \in Workers : SaveCommits(w, "detail") /\ ~req[w].hit
        /\ \A w \in Workers :
              ( /\ SaveCommits(w, "search") \/ SaveCommits(w, "detail")
                /\ OverwritesFilledEntry(w) )
              => /\ req[w].seen # "filled"
                 /\ req[w].lookup_ver <
                       (IF req[w].kind = "search" THEN ver.cache ELSE ver.place)
                 /\ \A p \in Workers :
                       WroteCurrentEntry(p, w) => req[w].lookup_ver < req[p].commit_ver
      ]_vars

\* A detail request stored its description and the next one was served from
\* it: Place holds what the first one wrote, Cache was never written.
C20_Witness ==
    \E p, q \in Workers :
        /\ Stored(p, "detail")
        /\ req[p].commit_ver = 1
        /\ LookedUpRightAfter(q, p)
        /\ req[q].key = req[p].key
        /\ req[q].hit
        /\ req[q].pc = "done"
        /\ ver = [cache |-> 0, place |-> 1]
        /\ cacheTable = <<>>
        /\ placeTable = <<[name |-> req[p].key, description |-> req[p].value,
                           image_url |-> PyNone]>>

====
